---- MODULE Spec2Model ----
(***************************************************************************)
(* Edit history of a text input: src/components/input/history.rs.          *)
(*                                                                         *)
(* HistoryChange (Insert / Delete / Replace over a half-open range) with   *)
(* inverse, can_merge_with and merge_with, and History, the two stacks     *)
(* with push / undo / redo / clear and the max_size bound.                 *)
(*                                                                         *)
(* Five specifications share the variables:                                *)
(*   Spec      the History object driven by arbitrary calls;               *)
(*   SpecHost  the History object driven by a host that edits a buffer,    *)
(*             pushes each edit and applies what undo and redo return;     *)
(*   SpecOp    the methods of HistoryChange called on operands drawn from  *)
(*             a bounded set;                                              *)
(*   SpecEdit  a buffer edited by one or two changes, then by the inverse  *)
(*             of the first or by the merge of the two and its inverse;    *)
(*   SpecReplay  changes pushed on a new History, then undone and redone.  *)
(***************************************************************************)
EXTENDS Integers, Sequences, FiniteSets, TLC

\* ------------------------------------------------------------------ bounds

\* Largest max_size a History is constructed with.
MaxCap == 2
\* Largest offset at which a change pushed in Spec starts.
MaxPos == 4
\* Longest buffer of the host in SpecHost.
MaxBuf == 3

\* Longest text and largest offset of an operand in SpecOp.
MaxLen == 2

\* The units of text of the host's buffer and of the operands in SpecOp.
Chars == {"a", "b"}

\* ------------------------------------------------------- HistoryChange

\* Range<usize>: start..end.
Range(s, e) == [start |-> s, end |-> e]

Insert(t, r) == [kind |-> "Insert", text |-> t, range |-> r]
Delete(t, r) == [kind |-> "Delete", text |-> t, range |-> r]
Replace(o, n, r) == [kind |-> "Replace", old_text |-> o, new_text |-> n, range |-> r]

\* Option::None, for an Option<HistoryChange>.
None == [kind |-> "None"]

\* inverse() that keeps the range of the change it inverts.
inverse_keeps_range(c) ==
  CASE c.kind = "Insert" ->
         Delete(<<>>, Range(c.range.start, c.range.start + Len(c.text)))
    [] c.kind = "Delete" ->
         Insert(c.text, Range(c.range.start, c.range.start))
    [] c.kind = "Replace" ->
         Replace(c.new_text, c.old_text, c.range)

\* HistoryChange::inverse (lines 29-49): the Delete built for an Insert has
\* the empty text.
inverse(c) ==
  CASE c.kind = "Insert" ->
         Delete(<<>>, Range(c.range.start, c.range.start + Len(c.text)))
    [] c.kind = "Delete" ->
         Insert(c.text, Range(c.range.start, c.range.start))
    [] c.kind = "Replace" ->
         Replace(c.new_text, c.old_text,
                 Range(c.range.start, c.range.start + Len(c.new_text)))

\* HistoryChange::change_type (lines 51-57).
change_type(c) == c.kind

\* can_merge_with that takes an Insert starting where the last one ended.
can_merge_with_adjacent(c, o) ==
  IF change_type(c) # change_type(o)
    THEN FALSE
    ELSE CASE c.kind = "Insert" /\ o.kind = "Insert" ->
                c.range.end = o.range.start
           [] c.kind = "Delete" /\ o.kind = "Delete" ->
                o.range.end = c.range.start \/ c.range.end = o.range.start
           [] OTHER -> FALSE

\* HistoryChange::can_merge_with (lines 59-83).
can_merge_with(c, o) ==
  IF change_type(c) # change_type(o)
    THEN FALSE
    ELSE CASE c.kind = "Insert" /\ o.kind = "Insert" ->
                c.range.end + 1 = o.range.start
           [] c.kind = "Delete" /\ o.kind = "Delete" ->
                o.range.end = c.range.start \/ c.range.end = o.range.start
           [] OTHER -> FALSE

\* merge_with whose backspace branch appends the new text instead of prepending it.
merge_with_appends(c, o) ==
  CASE c.kind = "Insert" /\ o.kind = "Insert" /\ c.range.end + 1 = o.range.start ->
         Insert(c.text \o o.text, Range(c.range.start, o.range.end))
    [] c.kind = "Delete" /\ o.kind = "Delete" ->
         IF o.range.end = c.range.start
           THEN Delete(c.text \o o.text, Range(o.range.start, c.range.end))
           ELSE IF c.range.end = o.range.start
             THEN Delete(c.text \o o.text, Range(c.range.start, o.range.end))
             ELSE None
    [] OTHER -> None

\* merge_with that knows the backspace direction only.
merge_with_backspace_only(c, o) ==
  CASE c.kind = "Insert" /\ o.kind = "Insert" /\ c.range.end + 1 = o.range.start ->
         Insert(c.text \o o.text, Range(c.range.start, o.range.end))
    [] c.kind = "Delete" /\ o.kind = "Delete" ->
         IF o.range.end = c.range.start
           THEN Delete(o.text \o c.text, Range(o.range.start, c.range.end))
           ELSE None
    [] OTHER -> None

\* HistoryChange::merge_with (lines 85-134).
merge_with(c, o) ==
  CASE c.kind = "Insert" /\ o.kind = "Insert" /\ c.range.end + 1 = o.range.start ->
         Insert(c.text \o o.text, Range(c.range.start, o.range.end))
    [] c.kind = "Delete" /\ o.kind = "Delete" ->
         IF o.range.end = c.range.start
           THEN Delete(o.text \o c.text, Range(o.range.start, c.range.end))
           ELSE IF c.range.end = o.range.start
             THEN Delete(c.text \o o.text, Range(c.range.start, o.range.end))
             ELSE None
    [] OTHER -> None

\* ------------------------------------------------------------- History

VARIABLES
  max_size,      \* History.max_size
  undo_stack,    \* History.undo_stack: a sequence of entries, the top last
  redo_stack,    \* History.redo_stack: a sequence of entries, the top last
  called,        \* the method called last
  change,        \* the argument of the last push (None after another call)
  result,        \* what the last call returned (None for no value)
  branch,        \* the path the last call took through its method
  redo_cleared,  \* how many redo entries the last push or clear dropped
  buf,           \* SpecHost, SpecEdit: the host's text buffer
  trip,          \* SpecHost: progress of a push, undo, redo sequence (0..3);
                 \* SpecEdit, SpecReplay: the step the sequence of calls is at
  pushed_buf,    \* SpecHost: the buffer right after the push that began the trip;
                 \* SpecEdit: the buffer before the edits
  recv,          \* SpecOp, SpecEdit: the receiver (self) of the method calls
  other,         \* SpecOp, SpecEdit: the argument of can_merge_with and merge_with
  pushes,        \* SpecReplay: the changes pushed, in order
  returns        \* SpecReplay: what the calls of undo and redo returned, in order

history == <<max_size, undo_stack, redo_stack>>
observed == <<called, change, result, branch, redo_cleared>>
hostvars == <<buf, trip, pushed_buf>>
opvars == <<recv, other>>
logvars == <<pushes, returns>>
vars == <<max_size, undo_stack, redo_stack, called, change, result, branch,
          redo_cleared, buf, trip, pushed_buf, recv, other, pushes, returns>>

\* HistoryEntry { change }.
HistoryEntry(c) == [change |-> c]

Last(s) == s[Len(s)]
\* Vec::remove(0): the sequence without its first element.
RemoveFirst(s) == SubSeq(s, 2, Len(s))
\* Vec::pop: the sequence without its last element.
WithoutLast(s) == SubSeq(s, 1, Len(s) - 1)

\* push, lines 168-170: the change the top entry becomes when `c` merges into
\* it, None when the stack is empty or the two do not merge.
merged_top(us, c) ==
  IF us # <<>> /\ can_merge_with(Last(us).change, c)
    THEN merge_with(Last(us).change, c)
    ELSE None

\* push that forgets to drop the oldest entry.
push_undo_no_evict(us, ms, c) ==
  IF merged_top(us, c) # None
    THEN [us EXCEPT ![Len(us)] = HistoryEntry(merged_top(us, c))]
    ELSE Append(us, HistoryEntry(c))

\* push that drops the entry it has just added instead of the oldest one.
push_undo_evicts_newest(us, ms, c) ==
  IF merged_top(us, c) # None
    THEN [us EXCEPT ![Len(us)] = HistoryEntry(merged_top(us, c))]
    ELSE IF Len(us) + 1 > ms
      THEN WithoutLast(Append(us, HistoryEntry(c)))
      ELSE Append(us, HistoryEntry(c))

\* push that drops the oldest entry one entry too early (>= for >).
push_undo_evicts_early(us, ms, c) ==
  IF merged_top(us, c) # None
    THEN [us EXCEPT ![Len(us)] = HistoryEntry(merged_top(us, c))]
    ELSE IF Len(us) + 1 >= ms
      THEN RemoveFirst(Append(us, HistoryEntry(c)))
      ELSE Append(us, HistoryEntry(c))

\* push that adds the merged change as a new entry instead of replacing the top.
push_undo_merge_appends(us, ms, c) ==
  LET e == HistoryEntry(IF merged_top(us, c) # None THEN merged_top(us, c) ELSE c)
  IN  IF Len(us) + 1 > ms
        THEN RemoveFirst(Append(us, e))
        ELSE Append(us, e)

\* push, lines 164-181: the undo stack it leaves.
push_undo(us, ms, c) ==
  IF merged_top(us, c) # None
    THEN [us EXCEPT ![Len(us)] = HistoryEntry(merged_top(us, c))]
    ELSE IF Len(us) + 1 > ms
      THEN RemoveFirst(Append(us, HistoryEntry(c)))
      ELSE Append(us, HistoryEntry(c))

\* push that clears the redo stack only after the merge attempt has failed.
push_redo_kept_on_merge(rs, us, c) == IF merged_top(us, c) # None THEN rs ELSE <<>>

\* push, line 162: the redo stack it leaves.
push_redo(rs, us, c) == <<>>

\* The path push takes: the early return of line 172, or line 177 with or
\* without the removal of line 180.
push_branch(us, ms, c) ==
  IF merged_top(us, c) # None THEN "merged"
  ELSE IF Len(us) + 1 > ms THEN "evicted"
  ELSE "pushed"

\* History::push(change), on the History alone.
Push(c) ==
  /\ redo_stack' = push_redo(redo_stack, undo_stack, c)
  /\ undo_stack' = push_undo(undo_stack, max_size, c)
  /\ called' = "push"
  /\ change' = c
  /\ result' = None
  /\ branch' = push_branch(undo_stack, max_size, c)
  /\ redo_cleared' = Len(redo_stack)
  /\ UNCHANGED max_size

\* undo that, finding nothing to undo, also forgets what could be redone.
UndoResetsWhenEmpty ==
  /\ IF undo_stack # <<>>
       THEN /\ undo_stack' = WithoutLast(undo_stack)
            /\ redo_stack' = Append(redo_stack, Last(undo_stack))
            /\ result' = inverse(Last(undo_stack).change)
            /\ branch' = "some"
       ELSE /\ undo_stack' = undo_stack
            /\ redo_stack' = <<>>
            /\ result' = None
            /\ branch' = "none"
  /\ called' = "undo"
  /\ change' = None
  /\ redo_cleared' = 0
  /\ UNCHANGED max_size

\* undo that keeps the inverse, not the entry, for redo.
UndoKeepsInverse ==
  /\ IF undo_stack # <<>>
       THEN /\ undo_stack' = WithoutLast(undo_stack)
            /\ redo_stack' =
                 Append(redo_stack, HistoryEntry(inverse(Last(undo_stack).change)))
            /\ result' = inverse(Last(undo_stack).change)
            /\ branch' = "some"
       ELSE /\ UNCHANGED <<undo_stack, redo_stack>>
            /\ result' = None
            /\ branch' = "none"
  /\ called' = "undo"
  /\ change' = None
  /\ redo_cleared' = 0
  /\ UNCHANGED max_size

\* History::undo(), on the History alone.
Undo ==
  /\ IF undo_stack # <<>>
       THEN /\ undo_stack' = WithoutLast(undo_stack)
            /\ redo_stack' = Append(redo_stack, Last(undo_stack))
            /\ result' = inverse(Last(undo_stack).change)
            /\ branch' = "some"
       ELSE /\ UNCHANGED <<undo_stack, redo_stack>>
            /\ result' = None
            /\ branch' = "none"
  /\ called' = "undo"
  /\ change' = None
  /\ redo_cleared' = 0
  /\ UNCHANGED max_size

\* redo that puts the entry back without taking it off the redo stack.
RedoKeepsEntry ==
  /\ IF redo_stack # <<>>
       THEN /\ redo_stack' = redo_stack
            /\ undo_stack' = Append(undo_stack, Last(redo_stack))
            /\ result' = Last(redo_stack).change
            /\ branch' = "some"
       ELSE /\ UNCHANGED <<undo_stack, redo_stack>>
            /\ result' = None
            /\ branch' = "none"
  /\ called' = "redo"
  /\ change' = None
  /\ redo_cleared' = 0
  /\ UNCHANGED max_size

\* redo that replays the oldest undone entry first (remove(0) for pop()).
RedoOldestFirst ==
  /\ IF redo_stack # <<>>
       THEN /\ redo_stack' = RemoveFirst(redo_stack)
            /\ undo_stack' = Append(undo_stack, redo_stack[1])
            /\ result' = redo_stack[1].change
            /\ branch' = "some"
       ELSE /\ UNCHANGED <<undo_stack, redo_stack>>
            /\ result' = None
            /\ branch' = "none"
  /\ called' = "redo"
  /\ change' = None
  /\ redo_cleared' = 0
  /\ UNCHANGED max_size

\* History::redo(), on the History alone.
Redo ==
  /\ IF redo_stack # <<>>
       THEN /\ redo_stack' = WithoutLast(redo_stack)
            /\ undo_stack' = Append(undo_stack, Last(redo_stack))
            /\ result' = Last(redo_stack).change
            /\ branch' = "some"
       ELSE /\ UNCHANGED <<undo_stack, redo_stack>>
            /\ result' = None
            /\ branch' = "none"
  /\ called' = "redo"
  /\ change' = None
  /\ redo_cleared' = 0
  /\ UNCHANGED max_size

\* clear that forgets the redo stack.
ClearKeepsRedo ==
  /\ undo_stack' = <<>>
  /\ redo_stack' = redo_stack
  /\ called' = "clear"
  /\ change' = None
  /\ result' = None
  /\ branch' = "none"
  /\ redo_cleared' = 0
  /\ UNCHANGED max_size

\* History::clear(), on the History alone.
Clear ==
  /\ undo_stack' = <<>>
  /\ redo_stack' = <<>>
  /\ called' = "clear"
  /\ change' = None
  /\ result' = None
  /\ branch' = "none"
  /\ redo_cleared' = Len(redo_stack)
  /\ UNCHANGED max_size

\* ---------------------------------------------------------------- Spec

\* The unit of text a change at offset s carries: one unit per offset, so that
\* the order in which two merged texts are joined shows.
Units == <<"a", "b", "c", "l", "o">>
Unit(s) == <<Units[(s % Len(Units)) + 1]>>

\* The changes pushed in Spec: at every offset up to MaxPos, the insertion of
\* one unit, the deletion of one unit and the replacement of one unit.
Changes ==
  {Insert(Unit(s), Range(s, s + 1)) : s \in 0..MaxPos}
    \cup {Delete(Unit(s), Range(s, s + 1)) : s \in 0..MaxPos}
    \cup {Replace(Unit(s), Unit(s + 1), Range(s, s + 1)) : s \in 0..MaxPos}

\* History::with_capacity(max_size) (History::new() is with_capacity(100)).
with_capacity(ms) ==
  /\ undo_stack = <<>>
  /\ redo_stack = <<>>
  /\ max_size = ms

NoCall ==
  /\ called = "new"
  /\ change = None
  /\ result = None
  /\ branch = "none"
  /\ redo_cleared = 0

NoHost == buf = <<>> /\ trip = 0 /\ pushed_buf = <<>>
NoOperands == recv = None /\ other = None
NoLog == pushes = <<>> /\ returns = <<>>

Init ==
  /\ \E ms \in 0..MaxCap : with_capacity(ms)
  /\ NoCall
  /\ NoHost
  /\ NoOperands
  /\ NoLog

CallPush == (\E c \in Changes : Push(c)) /\ UNCHANGED <<hostvars, opvars, logvars>>
CallUndo == Undo /\ UNCHANGED <<hostvars, opvars, logvars>>
CallRedo == Redo /\ UNCHANGED <<hostvars, opvars, logvars>>
CallClear == Clear /\ UNCHANGED <<hostvars, opvars, logvars>>

Next == CallPush \/ CallUndo \/ CallRedo \/ CallClear

Spec == Init /\ [][Next]_vars

\* ------------------------------------------------------------ SpecHost

\* The texts of n units, and of at most n units.
Texts(n) == [1..n -> Chars]
TextsUpTo(n) == UNION {Texts(k) : k \in 0..n}

\* The units of buffer b in the half-open range s..e.
Slice(b, s, e) == SubSeq(b, s + 1, e)

\* The host applies a change to its buffer: Insert places its text at
\* range.start, Delete removes the units of its range, Replace puts new_text
\* in the place of the units of its range.
Apply(c, b) ==
  CASE c.kind = "Insert" ->
         Slice(b, 0, c.range.start) \o c.text \o Slice(b, c.range.start, Len(b))
    [] c.kind = "Delete" ->
         Slice(b, 0, c.range.start) \o Slice(b, c.range.end, Len(b))
    [] c.kind = "Replace" ->
         Slice(b, 0, c.range.start) \o c.new_text \o Slice(b, c.range.end, Len(b))

\* The changes that describe an edit of one unit of buffer b: the range of an
\* Insert spans the inserted text, the text of a Delete and the old_text of a
\* Replace are what b holds in the range.
Edits(b) ==
  {Insert(t, Range(s, s + 1)) : s \in 0..Len(b), t \in Texts(1)}
    \cup {Delete(Slice(b, s, s + 1), Range(s, s + 1)) : s \in 0..(Len(b) - 1)}
    \cup {Replace(Slice(b, s, s + 1), n, Range(s, s + 1)) :
            s \in 0..(Len(b) - 1), n \in Texts(1)}

InitHost ==
  /\ \E ms \in 1..MaxCap : with_capacity(ms)
  /\ NoCall
  /\ buf \in TextsUpTo(MaxBuf)
  /\ trip = 0
  /\ pushed_buf = <<>>
  /\ NoOperands
  /\ NoLog

\* The host edits its buffer and records the edit.
HostEdit ==
  /\ \E c \in Edits(buf) :
       /\ Len(Apply(c, buf)) <= MaxBuf
       /\ buf' = Apply(c, buf)
       /\ Push(c)
  /\ trip' = 1
  /\ pushed_buf' = buf'
  /\ UNCHANGED <<opvars, logvars>>

\* The host calls undo() and applies the change it gets.
HostUndo ==
  /\ Undo
  /\ buf' = IF result' = None THEN buf ELSE Apply(result', buf)
  /\ trip' = IF trip = 1 THEN 2 ELSE 0
  /\ pushed_buf' = IF trip = 1 THEN pushed_buf ELSE <<>>
  /\ UNCHANGED <<opvars, logvars>>

\* The host calls redo() and applies the change it gets.
HostRedo ==
  /\ Redo
  /\ buf' = IF result' = None THEN buf ELSE Apply(result', buf)
  /\ trip' = IF trip = 2 THEN 3 ELSE 0
  /\ pushed_buf' = IF trip = 2 THEN pushed_buf ELSE <<>>
  /\ UNCHANGED <<opvars, logvars>>

\* The host clears the history.
HostClear ==
  /\ Clear
  /\ UNCHANGED buf
  /\ trip' = 0
  /\ pushed_buf' = <<>>
  /\ UNCHANGED <<opvars, logvars>>

NextHost == HostEdit \/ HostUndo \/ HostRedo \/ HostClear

SpecHost == InitHost /\ [][NextHost]_vars

\* -------------------------------------------------------------- SpecOp

\* The operands: every change whose range lies within 0..MaxLen and whose text
\* (old_text for a Replace) is as long as its range; the new_text of a Replace
\* is any text of at most one unit.
Operands ==
  LET Spans == {Range(s, e) : s \in 0..MaxLen, e \in 0..MaxLen}
      Fits(t, r) == r.start <= r.end /\ Len(t) = r.end - r.start
  IN  {c \in {Insert(t, r) : t \in TextsUpTo(MaxLen), r \in Spans} :
         Fits(c.text, c.range)}
        \cup {c \in {Delete(t, r) : t \in TextsUpTo(MaxLen), r \in Spans} :
                Fits(c.text, c.range)}
        \cup UNION {{c \in {Replace(o, n, r) : o \in TextsUpTo(MaxLen), r \in Spans} :
                       Fits(c.old_text, c.range)} : n \in TextsUpTo(1)}

InitOp ==
  /\ with_capacity(0)
  /\ NoCall
  /\ NoHost
  /\ recv \in Operands
  /\ other \in Operands
  /\ NoLog

Returned(name, value) ==
  /\ called' = name
  /\ result' = value
  /\ UNCHANGED <<history, change, branch, redo_cleared, hostvars, opvars, logvars>>

\* recv.inverse()
CallInverse == Returned("inverse", inverse(recv))

\* recv.inverse().inverse(): inverse() called on what inverse() returned.
CallInverseAgain ==
  /\ called = "inverse"
  /\ Returned("inverse.inverse", inverse(result))

\* recv.can_merge_with(&other)
CallCanMergeWith == Returned("can_merge_with", can_merge_with(recv, other))

\* recv.merge_with(&other)
CallMergeWith == Returned("merge_with", merge_with(recv, other))

NextOp == CallInverse \/ CallInverseAgain \/ CallCanMergeWith \/ CallMergeWith

SpecOp == InitOp /\ [][NextOp]_vars

\* ------------------------------------------------------------ SpecEdit

\* The changes that describe an edit of at most MaxLen units of buffer b (a
\* Replace puts at most one unit in their place).
AllEdits(b) ==
  LET Spans == {r \in {Range(s, e) : s \in 0..Len(b), e \in 0..Len(b)} :
                  r.start <= r.end /\ r.end - r.start <= MaxLen}
  IN  {Insert(t, Range(s, s + Len(t))) : s \in 0..Len(b), t \in TextsUpTo(MaxLen)}
        \cup {Delete(Slice(b, r.start, r.end), r) : r \in Spans}
        \cup {Replace(Slice(b, r.start, r.end), n, r) :
                r \in Spans, n \in TextsUpTo(1)}

InitEdit ==
  /\ with_capacity(0)
  /\ NoCall
  /\ buf \in TextsUpTo(MaxBuf)
  /\ pushed_buf = buf
  /\ trip = 0
  /\ recv \in {c \in AllEdits(buf) : Len(Apply(c, buf)) <= MaxBuf}
  /\ other = None
  /\ NoLog

\* The host makes the edit recv describes.
EditFirst ==
  /\ trip = 0
  /\ buf' = Apply(recv, buf)
  /\ trip' = 1
  /\ called' = "apply"
  /\ UNCHANGED <<history, change, result, branch, redo_cleared, pushed_buf,
                 opvars, logvars>>

\* The host applies recv.inverse().
EditInverse ==
  /\ trip = 1
  /\ result' = inverse(recv)
  /\ buf' = Apply(result', buf)
  /\ trip' = 2
  /\ called' = "apply.inverse"
  /\ UNCHANGED <<history, change, branch, redo_cleared, pushed_buf, opvars, logvars>>

\* The host makes a second edit, described by other in the buffer as it is now.
EditSecond ==
  /\ trip = 1
  /\ \E o \in AllEdits(buf) :
       /\ Len(Apply(o, buf)) <= MaxBuf
       /\ other' = o
       /\ buf' = Apply(o, buf)
  /\ trip' = 3
  /\ called' = "apply.other"
  /\ UNCHANGED <<history, change, result, branch, redo_cleared, pushed_buf,
                 recv, logvars>>

\* recv.merge_with(&other), after the two edits.
EditMerge ==
  /\ trip = 3
  /\ result' = merge_with(recv, other)
  /\ trip' = 4
  /\ called' = "merge_with"
  /\ UNCHANGED <<history, change, branch, redo_cleared, buf, pushed_buf,
                 opvars, logvars>>

\* The host applies the inverse of the merged change.
EditMergedInverse ==
  /\ trip = 4
  /\ result # None
  /\ result' = inverse(result)
  /\ buf' = Apply(result', buf)
  /\ trip' = 5
  /\ called' = "merged.inverse"
  /\ UNCHANGED <<history, change, branch, redo_cleared, pushed_buf, opvars, logvars>>

NextEdit ==
  EditFirst \/ EditInverse \/ EditSecond \/ EditMerge \/ EditMergedInverse

SpecEdit == InitEdit /\ [][NextEdit]_vars

\* ---------------------------------------------------------- SpecReplay

\* trip: 0 while changes are pushed, 1 while they are undone, 2 while they are
\* redone, 3 after the last redo.
InitReplay ==
  /\ \E ms \in 0..MaxCap : with_capacity(ms)
  /\ NoCall
  /\ NoHost
  /\ NoOperands
  /\ NoLog

\* push of a change that merges with none of the changes pushed before it,
\* while the History has room.
ReplayPush ==
  /\ trip = 0
  /\ Len(pushes) < max_size
  /\ \E c \in Changes :
       /\ \A i \in 1..Len(pushes) :
            ~can_merge_with(pushes[i], c) /\ ~can_merge_with(c, pushes[i])
       /\ Push(c)
       /\ pushes' = Append(pushes, c)
  /\ UNCHANGED <<hostvars, opvars, returns>>

\* One of the Len(pushes) + 1 consecutive calls of undo().
ReplayUndo ==
  /\ trip \in {0, 1}
  /\ Undo
  /\ returns' = Append(returns, result')
  /\ trip' = IF Len(returns') = Len(pushes) + 1 THEN 2 ELSE 1
  /\ UNCHANGED <<buf, pushed_buf, opvars, pushes>>

\* One of the Len(pushes) + 1 consecutive calls of redo() that follow.
ReplayRedo ==
  /\ trip = 2
  /\ Redo
  /\ returns' = Append(returns, result')
  /\ trip' = IF Len(returns') = 2 * Len(pushes) + 2 THEN 3 ELSE 2
  /\ UNCHANGED <<buf, pushed_buf, opvars, pushes>>

NextReplay == ReplayPush \/ ReplayUndo \/ ReplayRedo

SpecReplay == InitReplay /\ [][NextReplay]_vars

\* ---------------------------------------------------------- properties

Top == Last(undo_stack).change

\* C1 (SpecHost). Undo/redo round trip: the host applies a valid edit to its
\* buffer (giving B1) and pushes it, then applies what undo() returns and then
\* what redo() returns: redo() returns a change and the buffer is B1 again.
C1_RoundTrip == trip = 3 => (result # None /\ buf = pushed_buf)

\* Two changes are the same up to the collapsed-range convention: the same
\* variant and texts; the same range for a Replace, the same start for an
\* Insert or a Delete (whose length is the length of the text).
SameChange(x, y) ==
  /\ x.kind = y.kind
  /\ IF x.kind = "Replace"
       THEN x = y
       ELSE x.text = y.text /\ x.range.start = y.range.start

\* C2 (SpecOp). Involution: for a change whose range is as long as its text,
\* the inverse of its inverse is the same change up to the collapsed-range
\* convention.
C2_Involution == called = "inverse.inverse" => SameChange(result, recv)

\* The inverse as the documentation of inverse() gives it.
DocumentedInverse(c) ==
  CASE c.kind = "Insert" ->
         Delete(c.text, Range(c.range.start, c.range.start + Len(c.text)))
    [] c.kind = "Delete" ->
         Insert(c.text, Range(c.range.start, c.range.start))
    [] c.kind = "Replace" ->
         Replace(c.new_text, c.old_text,
                 Range(c.range.start, c.range.start + Len(c.new_text)))

\* C3 (SpecOp). inverse() per variant: an Insert inverts to the Delete of its
\* text over start..start+len(text), a Delete to the Insert of its text at the
\* collapsed range start..start, a Replace to the Replace with the texts
\* swapped over start..start+len(new_text).
C3_InversePerVariant == called = "inverse" => result = DocumentedInverse(recv)

\* C4 (Spec). Redo invalidation: right after any push, merging or not, the
\* redo stack is empty, and a redo() called right after a push returns None.
C4_RedoInvalidation ==
  /\ [](called = "push" => redo_stack = <<>>)
  /\ [][(called = "push" /\ called' = "redo") => result' = None]_vars

\* A push that merged has just dropped redo entries that undo() had put there.
C4_Witness == called = "push" /\ branch = "merged" /\ redo_cleared > 0

\* C5 (Spec). Capacity bound: the undo stack never holds more than max_size
\* entries, whatever sequence of push, undo, redo and clear has run.
C5_CapacityBound == Len(undo_stack) <= max_size

\* redo() has just put an entry back and the undo stack is full.
C5_Witness ==
  called = "redo" /\ branch = "some" /\ Len(undo_stack) = max_size

\* C6 as stated (Spec). A push that adds a new entry to an undo stack holding
\* max_size entries drops exactly the oldest entry and leaves the others in
\* order with the new entry on top.
C6_EvictionAsStated ==
  [][(called' = "push" /\ branch' # "merged" /\ Len(undo_stack) = max_size)
       => undo_stack' = Append(RemoveFirst(undo_stack), HistoryEntry(change'))]_vars

\* C6 as amended (Spec). The same for max_size >= 1; with max_size = 0 the
\* entry dropped is the one just added, and the undo stack stays empty.
C6_Eviction ==
  [][(called' = "push" /\ branch' # "merged" /\ Len(undo_stack) = max_size)
       => IF max_size >= 1
            THEN undo_stack' = Append(RemoveFirst(undo_stack), HistoryEntry(change'))
            ELSE undo_stack' = <<>>]_vars

\* With max_size = 2 a third change that merges with nothing has been pushed:
\* the stack holds two entries of different kinds, the new one on top.
C6_Witness ==
  /\ called = "push" /\ branch = "evicted" /\ max_size = 2
  /\ Len(undo_stack) = 2
  /\ undo_stack[2].change = change
  /\ undo_stack[1].change.kind # change.kind

\* C7 (Spec). Merge of insertions: an Insert pushed on top of an Insert that
\* ends where the new one starts is merged into it, the texts joined and the
\* range the union; Insert 0..1 "a" then Insert 1..2 "b" gives Insert 0..2 "ab"
\* in a stack of length 1.
C7_InsertMerge ==
  [][(/\ called' = "push" /\ undo_stack # <<>>
      /\ Top.kind = "Insert" /\ change'.kind = "Insert"
      /\ change'.range.start = Top.range.end)
       => /\ Len(undo_stack') = Len(undo_stack)
          /\ Last(undo_stack').change =
               Insert(Top.text \o change'.text,
                      Range(Top.range.start, change'.range.end))]_vars

\* C8 (Spec). Merge of deletions, backspace direction: a Delete r..s pushed on
\* top of a Delete s..e, r < s, leaves the length of the stack unchanged and
\* makes the top Delete r..e with the new text before the old one.
C8_DeleteMergeBackspace ==
  [][(/\ called' = "push" /\ undo_stack # <<>>
      /\ Top.kind = "Delete" /\ change'.kind = "Delete"
      /\ change'.range.end = Top.range.start
      /\ change'.range.start < change'.range.end)
       => /\ Len(undo_stack') = Len(undo_stack)
          /\ Last(undo_stack').change =
               Delete(change'.text \o Top.text,
                      Range(change'.range.start, Top.range.end))
          /\ WithoutLast(undo_stack') = WithoutLast(undo_stack)]_vars

\* Delete 3..4 "l" has been pushed on top of Delete 4..5 "o".
C8_Witness ==
  /\ called = "push" /\ change = Delete(<<"l">>, Range(3, 4))
  /\ undo_stack # <<>>
  /\ Top = Delete(<<"l", "o">>, Range(3, 5))

\* C9 (Spec). No merge across kinds: a change pushed on top of an entry of
\* another kind becomes a new entry on top, whatever the ranges; the entries
\* under it are the earlier ones unchanged, all of them while the stack has
\* room (an Insert then a Delete give length 2), all but the oldest otherwise.
C9_NoMergeAcrossKinds ==
  [][(called' = "push" /\ undo_stack # <<>> /\ change'.kind # Top.kind)
       => /\ Last(undo_stack') = HistoryEntry(change')
          /\ WithoutLast(undo_stack') =
               IF Len(undo_stack) < max_size
                 THEN undo_stack
                 ELSE RemoveFirst(undo_stack)]_vars

\* A Delete ending where the Insert under it starts has been pushed, and the
\* stack holds the two.
C9_Witness ==
  /\ called = "push" /\ branch = "pushed" /\ Len(undo_stack) = 2
  /\ undo_stack[1].change.kind = "Insert"
  /\ change.kind = "Delete"
  /\ change.range.end = undo_stack[1].change.range.start
  /\ undo_stack[2].change = change

\* C10 (Spec). Empty stacks: undo() on an empty undo stack and redo() on an
\* empty redo stack return None and leave both stacks as they were, every
\* time they are called.
C10_EmptyStacks ==
  [][/\ (called' = "undo" /\ undo_stack = <<>>)
          => (result' = None /\ undo_stack' = <<>> /\ redo_stack' = redo_stack)
     /\ (called' = "redo" /\ redo_stack = <<>>)
          => (result' = None /\ redo_stack' = <<>> /\ undo_stack' = undo_stack)]_vars

\* undo() has found nothing to undo while there is something to redo.
C10_Witness ==
  called = "undo" /\ branch = "none" /\ undo_stack = <<>> /\ redo_stack # <<>>

\* C11 (Spec). Stack transfer: undo() on a non-empty undo stack takes the top
\* entry off, puts it unchanged on the redo stack and returns its inverse;
\* redo() on a non-empty redo stack takes the top entry off, puts it unchanged
\* on the undo stack and returns its change. So a redo() right after an undo(),
\* and an undo() right after a redo(), put both stacks back.
C11_StackTransfer ==
  [][/\ (called' = "undo" /\ undo_stack # <<>>)
          => /\ undo_stack' = WithoutLast(undo_stack)
             /\ redo_stack' = Append(redo_stack, Last(undo_stack))
             /\ result' = inverse(Last(undo_stack).change)
     /\ (called' = "redo" /\ redo_stack # <<>>)
          => /\ redo_stack' = WithoutLast(redo_stack)
             /\ undo_stack' = Append(undo_stack, Last(redo_stack))
             /\ result' = Last(redo_stack).change]_vars

\* undo() has moved an entry to a redo stack that already held one.
C11_Witness ==
  /\ called = "undo" /\ branch = "some" /\ Len(redo_stack) = 2
  /\ result = inverse(Last(redo_stack).change)

\* C12 (Spec). clear() leaves both stacks empty and max_size as it was, and
\* while both stacks are empty undo() and redo() return None and leave them
\* empty.
C12_Clear ==
  /\ [][called' = "clear"
          => (undo_stack' = <<>> /\ redo_stack' = <<>> /\ max_size' = max_size)]_vars
  /\ [][(undo_stack = <<>> /\ redo_stack = <<>> /\ called' \in {"undo", "redo"})
          => (result' = None /\ undo_stack' = <<>> /\ redo_stack' = <<>>)]_vars

\* clear() has just emptied a redo stack that held entries.
C12_Witness ==
  /\ called = "clear" /\ redo_cleared > 0
  /\ undo_stack = <<>> /\ redo_stack = <<>> /\ max_size = MaxCap

\* A change is well formed: its range is ordered and, for an Insert or a
\* Delete, as long as its text.
WellFormed(c) ==
  /\ c.range.start <= c.range.end
  /\ c.kind \in {"Insert", "Delete"} => c.range.end - c.range.start = Len(c.text)

\* C13 (SpecEdit). A change then its inverse restore the buffer: for every
\* buffer and every change that is a valid edit of it, of any variant,
\* applying the change and then its inverse gives the buffer back.
C13_InverseRestores == called = "apply.inverse" => buf = pushed_buf

\* A Replace that changed the length of the buffer has been undone.
C13_Witness ==
  /\ called = "apply.inverse" /\ recv.kind = "Replace"
  /\ Len(recv.new_text) # Len(recv.old_text)
  /\ buf = pushed_buf

\* C14 (SpecEdit). A merged change stands for both edits: a being a valid edit
\* of buffer B, b a valid edit of the buffer after a, and a.merge_with(b) being
\* m, applying m to B gives the buffer after a and b, and applying m.inverse()
\* then gives B.
C14_MergeRepresentsBoth ==
  /\ (called = "merge_with" /\ result # None) => Apply(result, pushed_buf) = buf
  /\ called = "merged.inverse" => buf = pushed_buf

\* C15 (Spec). Well-formedness is preserved: every change pushed being well
\* formed, so is every entry of both stacks and every change undo() and
\* redo() return, but for the collapsed range of an Insert returned by undo().
C15_WellFormedPreserved ==
  /\ \A i \in 1..Len(undo_stack) : WellFormed(undo_stack[i].change)
  /\ \A i \in 1..Len(redo_stack) : WellFormed(redo_stack[i].change)
  /\ (called = "redo" /\ result # None) => WellFormed(result)
  /\ (called = "undo" /\ result # None)
       => IF result.kind = "Insert"
            THEN result.range.start <= result.range.end
            ELSE WellFormed(result)

\* C18 (Spec). Frame of a merging push: when the change pushed merges into the
\* top entry, the stack keeps its length, even when full, the entries under
\* the top are unchanged and the top becomes the merged change.
C18_MergeFrame ==
  [][(called' = "push" /\ undo_stack # <<>> /\ can_merge_with(Top, change'))
       => /\ Len(undo_stack') = Len(undo_stack)
          /\ WithoutLast(undo_stack') = WithoutLast(undo_stack)
          /\ Last(undo_stack') = HistoryEntry(merge_with(Top, change'))]_vars

\* A push has merged into the top of a full stack of two entries.
C18_Witness ==
  /\ called = "push" /\ branch = "merged"
  /\ max_size = 2 /\ Len(undo_stack) = 2

\* What the calls of undo() and redo() return after op1..opk were pushed: the
\* inverses of opk, ..., op1, then None, then op1, ..., opk, then None.
ReplayOrder ==
  LET k == Len(pushes)
  IN  [i \in 1..(2 * k + 2) |->
         IF i <= k THEN inverse(pushes[k + 1 - i])
         ELSE IF i = k + 1 \/ i = 2 * k + 2 THEN None
         ELSE pushes[i - k - 1]]

\* The undo stack right after the pushes.
PushedStack == [i \in 1..Len(pushes) |-> HistoryEntry(pushes[i])]

\* C19 (SpecReplay). LIFO replay order: after pushing k pairwise non-mergeable
\* changes op1..opk (k <= max_size) on an empty History, k calls of undo()
\* return the inverses of opk, ..., op1 in that order and the next returns
\* None; k calls of redo() then return op1, ..., opk in that order and the
\* next returns None, leaving the undo stack as it was after the pushes.
C19_ReplayOrder ==
  /\ \A i \in 1..Len(returns) : returns[i] = ReplayOrder[i]
  /\ trip \in {0, 3} => undo_stack = PushedStack /\ redo_stack = <<>>

\* Two changes were pushed, undone and redone, and both last calls found nothing.
C19_Witness ==
  /\ trip = 3 /\ Len(pushes) = 2 /\ Len(returns) = 6
  /\ returns[3] = None /\ returns[6] = None
  /\ returns[4] = pushes[1] /\ returns[5] = pushes[2]

\* C20 (Spec). The two stacks together never hold more than max_size entries:
\* undo() and redo() keep the total, and the redo stack alone never holds
\* more than max_size.
C20_TotalBound ==
  /\ [](Len(undo_stack) + Len(redo_stack) <= max_size /\ Len(redo_stack) <= max_size)
  /\ [][called' \in {"undo", "redo"}
          => Len(undo_stack') + Len(redo_stack') = Len(undo_stack) + Len(redo_stack)]_vars

\* undo() has filled the redo stack up to max_size.
C20_Witness ==
  called = "undo" /\ branch = "some" /\ max_size = 2 /\ Len(redo_stack) = 2

\* C16 (SpecOp). can_merge_with is true exactly for two Inserts with
\* self.range.end + 1 = other.range.start and for two Deletes with
\* other.range.end = self.range.start or self.range.end = other.range.start;
\* it is false for two Replaces and for two changes of different kinds.
C16_CanMergeExact ==
  called = "can_merge_with"
    => (result <=>
          \/ /\ recv.kind = "Insert" /\ other.kind = "Insert"
             /\ recv.range.end + 1 = other.range.start
          \/ /\ recv.kind = "Delete" /\ other.kind = "Delete"
             /\ \/ other.range.end = recv.range.start
                \/ recv.range.end = other.range.start)

\* can_merge_with has accepted an Insert that starts one unit after self ends.
C16_Witness ==
  /\ called = "can_merge_with" /\ result
  /\ recv.kind = "Insert" /\ other.kind = "Insert"
  /\ recv.range.end < other.range.start

\* C17 (SpecOp). merge_with agrees with can_merge_with: it returns a change
\* exactly when can_merge_with is true of the same pair, and None otherwise.
C17_MergeAgreesWithCanMerge ==
  called = "merge_with" => ((result # None) <=> can_merge_with(recv, other))

\* merge_with has merged a Delete in the forward direction only.
C17_Witness ==
  /\ called = "merge_with" /\ result # None
  /\ recv.kind = "Delete"
  /\ recv.range.end = other.range.start
  /\ other.range.end # recv.range.start

====
